---- MODULE Spec2Model ----
(***************************************************************************)
(* comparacion_stock.py: comparison of two stock CSVs (v1 = original,      *)
(* v2 = new) by a composite key.  The script loads both files with         *)
(* pandas.read_csv, checks the key columns and the column sets, casts the  *)
(* key columns to str, merges, classifies the merged rows and writes four  *)
(* CSVs and a summary.                                                     *)
(*                                                                         *)
(* A CSV cell is a text: a sequence of fragments whose concatenation is    *)
(* the text; cells read from a file are split character by character.      *)
(* A loaded cell is a record [t, m, e, s]:                                 *)
(*   t = "int"   : int64 value m                                           *)
(*   t = "float" : float64 value m / 10^e (m, e normalised)                *)
(*   t = "str"   : Python str with text s                                  *)
(*   t = "nan"   : missing value (float NaN)                               *)
(* A DataFrame is [columns |-> sequence of labels, rows |-> sequence of    *)
(* functions from the labels to cells].                                    *)
(***************************************************************************)
EXTENDS Integers, Sequences, FiniteSets, TLC

(* ---------------------------------------------------------------------- *)
(* Bounds of the model                                                     *)
(* ---------------------------------------------------------------------- *)
\* rows per CSV file in the two-column inputs
MaxRows == 2
\* rows per CSV file in the three-column and schema-mismatch inputs
MaxWideRows == 1

(* ---------------------------------------------------------------------- *)
(* Generic helpers                                                         *)
(* ---------------------------------------------------------------------- *)
Range(s) == { s[i] : i \in 1..Len(s) }

InSeq(x, s) == \E i \in 1..Len(s) : s[i] = x

\* Python list comprehension [c for c in s if c not in t]
NotIn(s, t) ==
  LET Keep(c) == ~InSeq(c, t)
  IN  SelectSeq(s, Keep)

\* sequences over S of length 0..n
SeqsUpTo(S, n) == UNION { [1..k -> S] : k \in 0..n }

(* ---------------------------------------------------------------------- *)
(* Cells                                                                   *)
(* ---------------------------------------------------------------------- *)
Digits == <<"0", "1", "2", "3", "4", "5", "6", "7", "8", "9">>

IsDigit(c) == InSeq(c, Digits)

DigitVal(c) == (CHOOSE i \in 1..10 : Digits[i] = c) - 1

NaN == [t |-> "nan", m |-> 0, e |-> 0, s |-> <<>>]

StrCell(txt) == [t |-> "str", m |-> 0, e |-> 0, s |-> txt]

\* tokens pandas.read_csv reads as missing (the ones of its default list
\* that the inputs can contain)
NA_VALUES == { <<>>, <<"N", "A">>, <<"n", "a", "n">>, <<"N", "a", "N">> }

IsNA(txt) == txt \in NA_VALUES

\* a token the parser converts to int64: one or more decimal digits
IsIntText(txt) == Len(txt) >= 1 /\ \A i \in 1..Len(txt) : IsDigit(txt[i])

\* a token the parser converts to float64: digits with at most one point
IsFloatText(txt) ==
  /\ \E i \in 1..Len(txt) : IsDigit(txt[i])
  /\ \A i \in 1..Len(txt) : IsDigit(txt[i]) \/ txt[i] = "."
  /\ Cardinality({ i \in 1..Len(txt) : txt[i] = "." }) <= 1

RECURSIVE IntOf(_)
IntOf(ds) ==
  IF Len(ds) = 0 THEN 0
  ELSE 10 * IntOf(SubSeq(ds, 1, Len(ds) - 1)) + DigitVal(ds[Len(ds)])

\* m / 10^e without trailing zeros in the fraction
RECURSIVE Normalise(_, _)
Normalise(m, e) ==
  IF e > 0 /\ m % 10 = 0 THEN Normalise(m \div 10, e - 1) ELSE [m |-> m, e |-> e]

PointAt(txt) ==
  IF InSeq(".", txt) THEN CHOOSE i \in 1..Len(txt) : txt[i] = "." ELSE Len(txt) + 1

ParseNumber(txt) ==
  LET p    == PointAt(txt)
      ip   == SubSeq(txt, 1, p - 1)
      fp   == SubSeq(txt, p + 1, Len(txt))
  IN  Normalise(IntOf(ip \o fp), Len(fp))

\* dtype read_csv infers for a column from its tokens
InferDtype(col) ==
  LET present == { i \in 1..Len(col) : ~IsNA(col[i]) }
  IN  IF Len(col) = 0 THEN "object"
      ELSE IF present = {} THEN "float64"
      ELSE IF \A i \in present : IsIntText(col[i])
           THEN (IF present = 1..Len(col) THEN "int64" ELSE "float64")
      ELSE IF \A i \in present : IsFloatText(col[i]) THEN "float64"
      ELSE "object"

\* value of one token in a column of the given dtype
Convert(dtype, txt) ==
  IF IsNA(txt) THEN NaN
  ELSE IF dtype = "int64"
       THEN [t |-> "int", m |-> IntOf(txt), e |-> 0, s |-> <<>>]
  ELSE IF dtype = "float64"
       THEN [t |-> "float", m |-> ParseNumber(txt).m, e |-> ParseNumber(txt).e, s |-> <<>>]
  ELSE StrCell(txt)

RECURSIVE DigitsOf(_)
DigitsOf(n) ==
  IF n < 10 THEN <<Digits[n + 1]>> ELSE DigitsOf(n \div 10) \o <<Digits[(n % 10) + 1]>>

RECURSIVE Pow10(_)
Pow10(e) == IF e = 0 THEN 1 ELSE 10 * Pow10(e - 1)

RECURSIVE Zeros(_)
Zeros(n) == IF n <= 0 THEN <<>> ELSE <<"0">> \o Zeros(n - 1)

\* repr of a float64: always with a point and at least one fraction digit
FloatRepr(m, e) ==
  IF e = 0 THEN DigitsOf(m) \o <<".", "0">>
  ELSE LET fr == DigitsOf(m % Pow10(e))
       IN  DigitsOf(m \div Pow10(e)) \o <<".">> \o Zeros(e - Len(fr)) \o fr

\* str(x) of a cell value
PyStr(c) ==
  IF c.t = "int" THEN DigitsOf(c.m)
  ELSE IF c.t = "float" THEN FloatRepr(c.m, c.e)
  ELSE IF c.t = "nan" THEN <<"n", "a", "n">>
  ELSE c.s

\* Series.astype(str) on one cell (object-dtype result of pandas 1.x and
\* 2.x: a missing value becomes the text "nan")
AsTypeStr(c) == StrCell(PyStr(c))

\* elementwise == of pandas: NaN equals nothing, numbers compare by value,
\* a str never equals a number
CellEq(a, b) ==
  IF a.t = "nan" \/ b.t = "nan" THEN FALSE
  ELSE IF a.t = "str" \/ b.t = "str" THEN a.t = b.t /\ a.s = b.s
  ELSE a.m = b.m /\ a.e = b.e

\* text to_csv writes for a cell
CsvText(c) == IF c.t = "nan" THEN <<>> ELSE PyStr(c)

(* ---------------------------------------------------------------------- *)
(* DataFrames                                                              *)
(* ---------------------------------------------------------------------- *)
NoFrame == [columns |-> <<>>, rows |-> <<>>]

Column(f, c) == [i \in 1..Len(f.rows) |-> f.rows[i][c]]

\* pd.read_csv: every column gets the dtype inferred from its tokens
read_csv(csv) ==
  [columns |-> csv.columns,
   rows    |-> [i \in 1..Len(csv.rows) |->
                 [c \in Range(csv.columns) |->
                    Convert(InferDtype(Column(csv, c)), csv.rows[i][c])]]]

\* DataFrame.to_csv(index=False)
to_csv(df) ==
  [columns |-> df.columns,
   rows    |-> [i \in 1..Len(df.rows) |->
                 [c \in Range(df.columns) |-> CsvText(df.rows[i][c])]]]

\* df[labels] restricted to the rows whose mask entry is TRUE
\* (df.loc[mask, labels])
Loc(df, mask, labels) ==
  LET idx  == { i \in 1..Len(df.rows) : mask[i] }
      RECURSIVE Pick(_)
      Pick(i) == IF i > Len(df.rows) THEN <<>>
                 ELSE (IF i \in idx
                       THEN <<[l \in Range(labels) |-> df.rows[i][l]]>>
                       ELSE <<>>) \o Pick(i + 1)
  IN  [columns |-> labels, rows |-> Pick(1)]

\* df[labels]
Project(df, labels) == Loc(df, [i \in 1..Len(df.rows) |-> TRUE], labels)

PosOf(x, s) == CHOOSE i \in 1..Len(s) : s[i] = x

\* df.columns = labels : the labels are replaced position by position
SetColumns(df, labels) ==
  [columns |-> labels,
   rows    |-> [i \in 1..Len(df.rows) |->
                 [l \in Range(labels) |-> df.rows[i][df.columns[PosOf(l, labels)]]]]]

\* df.insert(loc, label, values)
Insert(df, loc, label, values) ==
  [columns |-> SubSeq(df.columns, 1, loc) \o <<label>>
               \o SubSeq(df.columns, loc + 1, Len(df.columns)),
   rows    |-> [i \in 1..Len(df.rows) |->
                 [l \in Range(df.columns) \cup {label} |->
                    IF l = label THEN values[i] ELSE df.rows[i][l]]]]

\* df[k] = df[k].astype(str) for every k of ks, in place
AsTypeStrKeys(df, ks) ==
  [columns |-> df.columns,
   rows    |-> [i \in 1..Len(df.rows) |->
                 [c \in Range(df.columns) |->
                    IF InSeq(c, ks) THEN AsTypeStr(df.rows[i][c]) ELSE df.rows[i][c]]]]

\* two key values name the same join key (missing keys match each other)
MergeKeyEq(a, b) == (a.t = "nan" /\ b.t = "nan") \/ CellEq(a, b)

KeysMatch(lrow, rrow, on) == \A n \in 1..Len(on) : MergeKeyEq(lrow[on[n]], rrow[on[n]])

\* variant of Matches below: the right frame is deduplicated by key, so a
\* left row is joined to its first matching right row only
Matches_First(left, right, on, i) ==
  LET js == { j \in 1..Len(right.rows) :
                \A n \in 1..Len(on) :
                   \/ left.rows[i][on[n]].t = "nan" /\ right.rows[j][on[n]].t = "nan"
                   \/ CellEq(left.rows[i][on[n]], right.rows[j][on[n]]) }
  IN  IF js = {} THEN <<>> ELSE <<CHOOSE j \in js : \A k \in js : j <= k>>

\* right rows joined to left row i, in right order
Matches(left, right, on, i) ==
  LET RECURSIVE From(_)
      From(j) == IF j > Len(right.rows) THEN <<>>
                 ELSE (IF KeysMatch(left.rows[i], right.rows[j], on)
                       THEN <<j>> ELSE <<>>) \o From(j + 1)
  IN  From(1)

\* label of a column of one side in the merged frame
Suffixed(c, on, other, suffix) ==
  IF ~InSeq(c, on) /\ InSeq(c, other.columns) THEN c \o suffix ELSE c

SuffixAll(cols, suffix) == [n \in 1..Len(cols) |-> cols[n] \o suffix]

\* left.merge(right, on=on, how="inner", suffixes=("_v1", "_v2")):
\* one row per (left row, right row) with equal keys, in left order
MergeInner(left, right, on) ==
  LET lcols  == [n \in 1..Len(left.columns) |->
                   Suffixed(left.columns[n], on, right, "_v1")]
      rrest  == NotIn(right.columns, on)
      rcols  == [n \in 1..Len(rrest) |-> Suffixed(rrest[n], on, left, "_v2")]
      Row(i, j) ==
        [l \in Range(lcols) \cup Range(rcols) |->
           IF InSeq(l, lcols)
           THEN left.rows[i][left.columns[PosOf(l, lcols)]]
           ELSE right.rows[j][rrest[PosOf(l, rcols)]]]
      RowsOf(i) == LET ms == Matches(left, right, on, i)
                   IN  [n \in 1..Len(ms) |-> Row(i, ms[n])]
      RECURSIVE From(_)
      From(i) == IF i > Len(left.rows) THEN <<>> ELSE RowsOf(i) \o From(i + 1)
  IN  [columns |-> lcols \o rcols, rows |-> From(1)]

\* left.merge(right, on=on, how="left", indicator=True), right holding only
\* the key columns: every left row once per matching right row, or once
\* marked left_only when none matches
MergeLeftIndicator(left, right, on) ==
  LET Mark(i, m) == [l \in Range(left.columns) \cup {"_merge"} |->
                       IF l = "_merge" THEN StrCell(<<m>>) ELSE left.rows[i][l]]
      RowsOf(i) == LET ms == Matches(left, right, on, i)
                   IN  IF Len(ms) = 0 THEN <<Mark(i, "left_only")>>
                       ELSE [n \in 1..Len(ms) |-> Mark(i, "both")]
      RECURSIVE From(_)
      From(i) == IF i > Len(left.rows) THEN <<>> ELSE RowsOf(i) \o From(i + 1)
  IN  [columns |-> left.columns \o <<"_merge">>, rows |-> From(1)]

\* variant of LeftOnly below: the filter keeps the rows marked both
LeftOnly_KeepsBoth(df) ==
  [columns |-> SelectSeq(df.columns, LAMBDA c : c # "_merge"),
   rows    |-> LET Both(r) == r["_merge"].s = <<"both">>
                   Drop(r) == [c \in DOMAIN r \ {"_merge"} |-> r[c]]
                   sel == SelectSeq(df.rows, Both)
               IN  [i \in 1..Len(sel) |-> Drop(sel[i])]]

\* df[df["_merge"] == "left_only"].drop(columns="_merge")
LeftOnly(df) ==
  LET cols == NotIn(df.columns, <<"_merge">>)
  IN  Loc(df, [i \in 1..Len(df.rows) |-> df.rows[i]["_merge"] = StrCell(<<"left_only">>)],
          cols)

RECURSIVE JoinComma(_)
JoinComma(names) ==
  IF Len(names) = 0 THEN ""
  ELSE IF Len(names) = 1 THEN names[1]
  ELSE names[1] \o "," \o JoinComma(Tail(names))

(* ---------------------------------------------------------------------- *)
(* Inputs                                                                  *)
(* ---------------------------------------------------------------------- *)
T01  == <<"0", "1">>
Tx   == <<"x">>
T1   == <<"1">>
T3   == <<"3">>
T30  == <<"3", ".", "0">>
T4   == <<"4">>
Tna  == <<>>

\* default of --keys
DefaultKeys == <<"ItemNo", "LocationCode">>

\* cell texts of the two-column files
Texts(c) ==
  IF c = "ItemNo" THEN {T01, Tx} ELSE {T3, T30, Tna}

\* cell texts of the three-column and schema-mismatch files
WideTexts(c) ==
  IF c = "ItemNo" THEN {T01, Tx}
  ELSE IF c = "LocationCode" THEN {T1, Tna}
  ELSE IF c = "Qty" THEN {T3, Tna}
  ELSE {T4, Tna}

\* column orders of the two files and the --keys argument
Layouts ==
  { [c1 |-> <<"ItemNo", "Qty">>, c2 |-> <<"ItemNo", "Qty">>, keys |-> <<"ItemNo">>],
    [c1 |-> <<"ItemNo", "Qty">>, c2 |-> <<"Qty", "ItemNo">>, keys |-> <<"ItemNo">>] }

WideLayouts ==
  { \* a file without a header line (zero bytes, or blank lines only)
    [c1 |-> <<>>, c2 |-> <<"ItemNo", "Qty">>, keys |-> <<"ItemNo">>],
    [c1 |-> <<"ItemNo", "Qty">>, c2 |-> <<>>, keys |-> <<"ItemNo">>],
    [c1 |-> <<>>, c2 |-> <<>>, keys |-> DefaultKeys],
    \* same schema, keys first or not, in file order or not
    [c1 |-> <<"ItemNo", "LocationCode", "Qty">>, c2 |-> <<"ItemNo", "LocationCode", "Qty">>,
     keys |-> DefaultKeys],
    [c1 |-> <<"ItemNo", "LocationCode", "Qty">>, c2 |-> <<"Qty", "LocationCode", "ItemNo">>,
     keys |-> <<"LocationCode", "ItemNo">>],
    [c1 |-> <<"Qty", "ItemNo", "Cost">>, c2 |-> <<"ItemNo", "Cost", "Qty">>,
     keys |-> <<"ItemNo">>],
    [c1 |-> <<"ItemNo", "Qty", "Cost">>, c2 |-> <<"ItemNo", "Qty", "Cost">>,
     keys |-> <<"ItemNo">>],
    [c1 |-> <<"ItemNo", "LocationCode">>, c2 |-> <<"LocationCode", "ItemNo">>,
     keys |-> DefaultKeys],
    \* a key column absent from v2, from v1, from both
    [c1 |-> <<"ItemNo", "LocationCode", "Qty">>, c2 |-> <<"ItemNo", "Qty">>,
     keys |-> DefaultKeys],
    [c1 |-> <<"LocationCode", "Qty">>, c2 |-> <<"ItemNo", "LocationCode", "Qty">>,
     keys |-> DefaultKeys],
    [c1 |-> <<"Qty", "Cost">>, c2 |-> <<"Qty", "Cost">>, keys |-> <<"ItemNo">>],
    [c1 |-> <<"ItemNo", "Qty">>, c2 |-> <<"LocationCode", "Qty">>, keys |-> DefaultKeys],
    \* keys present, column sets different
    [c1 |-> <<"ItemNo", "Qty">>, c2 |-> <<"ItemNo", "Qty", "Cost">>, keys |-> <<"ItemNo">>],
    [c1 |-> <<"ItemNo", "Cost", "Qty">>, c2 |-> <<"ItemNo", "Qty">>, keys |-> <<"ItemNo">>],
    [c1 |-> <<"ItemNo", "Qty">>, c2 |-> <<"Cost", "ItemNo">>, keys |-> <<"ItemNo">>] }

\* the rows a file with the given columns can hold
RowsOver(cols, wide) ==
  LET T(c) == IF wide THEN WideTexts(c) ELSE Texts(c)
  IN  { r \in [Range(cols) -> UNION { T(c) : c \in Range(cols) }] :
          \A c \in Range(cols) : r[c] \in T(c) }

CsvFiles(cols, wide, n) ==
  { [columns |-> cols, rows |-> rs] : rs \in SeqsUpTo(RowsOver(cols, wide), n) }

(* ---------------------------------------------------------------------- *)
(* State                                                                   *)
(* ---------------------------------------------------------------------- *)
VARIABLES
  pc,             \* next step of main()
  csv_v1, csv_v2, \* the two input files
  keys,           \* args.keys
  df_v1, df_v2,   \* the loaded frames
  merged,         \* the inner merge
  identicas_mask, \* eq_matrix.all(axis=1)
  identicas, diferentes, solo_v2, solo_v1,
  files,          \* output files written, by name
  stdout,         \* the four counts of the summary
  error,          \* error reported by the run
  exit_code

vars == <<pc, csv_v1, csv_v2, keys, df_v1, df_v2, merged, identicas_mask,
          identicas, diferentes, solo_v2, solo_v1, files, stdout, error, exit_code>>

NoError == [kind |-> "none", key |-> "", sides |-> "", missing_in_v2 |-> <<>>,
            missing_in_v1 |-> <<>>]

NoCounts == [identicas |-> 0, diferentes |-> 0, solo_v2 |-> 0, solo_v1 |-> 0]

FileNames == {"coinciden_completamente.csv", "difieren.csv", "solo_en_v2.csv",
              "solo_en_v1.csv"}

Start(f1, f2, ks) ==
  /\ pc = "read_csv"
  /\ csv_v1 = f1
  /\ csv_v2 = f2
  /\ keys = ks
  /\ df_v1 = NoFrame
  /\ df_v2 = NoFrame
  /\ merged = NoFrame
  /\ identicas_mask = <<>>
  /\ identicas = NoFrame
  /\ diferentes = NoFrame
  /\ solo_v2 = NoFrame
  /\ solo_v1 = NoFrame
  /\ files = << >>
  /\ stdout = NoCounts
  /\ error = NoError
  /\ exit_code = 0

Init ==
  \/ \E lay \in Layouts :
       \E f1 \in CsvFiles(lay.c1, FALSE, MaxRows), f2 \in CsvFiles(lay.c2, FALSE, MaxRows) :
         Start(f1, f2, lay.keys)
  \/ \E lay \in WideLayouts :
       \E f1 \in CsvFiles(lay.c1, TRUE, MaxWideRows),
          f2 \in CsvFiles(lay.c2, TRUE, MaxWideRows) :
         Start(f1, f2, lay.keys)

(* ---------------------------------------------------------------------- *)
(* main()                                                                  *)
(* ---------------------------------------------------------------------- *)
\* pd.read_csv raises on a file it finds no columns in (EmptyDataError)
Unreadable(csv) == Len(csv.columns) = 0

\* the message of line 56
ReadError ==
  [kind |-> "lectura", key |-> "", sides |-> "", missing_in_v2 |-> <<>>,
   missing_in_v1 |-> <<>>]

\* try: df_v1 = pd.read_csv(args.csv_v1); df_v2 = pd.read_csv(args.csv_v2)
\* except Exception: print the error, sys.exit(1)
LoadCsvs ==
  /\ pc = "read_csv"
  /\ IF Unreadable(csv_v1)
     THEN UNCHANGED <<df_v1, df_v2>>
     ELSE IF Unreadable(csv_v2)
     THEN df_v1' = read_csv(csv_v1) /\ UNCHANGED df_v2
     ELSE df_v1' = read_csv(csv_v1) /\ df_v2' = read_csv(csv_v2)
  /\ IF Unreadable(csv_v1) \/ Unreadable(csv_v2)
     THEN error' = ReadError /\ exit_code' = 1 /\ pc' = "exit"
     ELSE pc' = "check_keys" /\ UNCHANGED <<error, exit_code>>
  /\ UNCHANGED <<csv_v1, csv_v2, keys, merged, identicas_mask, identicas, diferentes,
                 solo_v2, solo_v1, files, stdout>>

KeyMissing(k) == ~InSeq(k, df_v1.columns) \/ ~InSeq(k, df_v2.columns)

\* the message of line 62: it carries the key's name and the words
\* "no existe en ambos CSVs", whichever file lacks the key
KeyError(k) ==
  [kind |-> "clave", key |-> k, sides |-> "ambos", missing_in_v2 |-> <<>>,
   missing_in_v1 |-> <<>>]

\* for k in keys: if k not in df_v1.columns or k not in df_v2.columns: exit(1)
CheckKeys ==
  /\ pc = "check_keys"
  /\ IF \E n \in 1..Len(keys) : KeyMissing(keys[n])
     THEN LET n == CHOOSE n \in 1..Len(keys) :
                     KeyMissing(keys[n]) /\ \A j \in 1..(n - 1) : ~KeyMissing(keys[j])
          IN  /\ error' = KeyError(keys[n])
              /\ exit_code' = 1
              /\ pc' = "exit"
     ELSE /\ pc' = "validate_columns"
          /\ UNCHANGED <<error, exit_code>>
  /\ UNCHANGED <<csv_v1, csv_v2, keys, df_v1, df_v2, merged, identicas_mask, identicas,
                 diferentes, solo_v2, solo_v1, files, stdout>>

missing_in_v2(df1, df2) == NotIn(df1.columns, df2.columns)

missing_in_v1(df1, df2) == NotIn(df2.columns, df1.columns)

\* variant of ColumnsDiffer below: only the columns of v1 are looked for
\* in v2
ColumnsDiffer_OneWay(df1, df2) == ~(Range(df1.columns) \subseteq Range(df2.columns))

\* the condition under which validate_columns raises
ColumnsDiffer(df1, df2) == Range(df1.columns) # Range(df2.columns)

\* validate_columns(df_v1, df_v2); the ValueError is not caught
validate_columns ==
  /\ pc = "validate_columns"
  /\ IF ColumnsDiffer(df_v1, df_v2)
     THEN /\ error' = [kind |-> "columnas", key |-> "", sides |-> "",
                       missing_in_v2 |-> missing_in_v2(df_v1, df_v2),
                       missing_in_v1 |-> missing_in_v1(df_v1, df_v2)]
          /\ exit_code' = 1
          /\ pc' = "exit"
     ELSE /\ pc' = "astype"
          /\ UNCHANGED <<error, exit_code>>
  /\ UNCHANGED <<csv_v1, csv_v2, keys, df_v1, df_v2, merged, identicas_mask, identicas,
                 diferentes, solo_v2, solo_v1, files, stdout>>

\* for k in keys: df_v1[k] = df_v1[k].astype(str); df_v2[k] = ...
NormalizeKeys ==
  /\ pc = "astype"
  /\ df_v1' = AsTypeStrKeys(df_v1, keys)
  /\ df_v2' = AsTypeStrKeys(df_v2, keys)
  /\ pc' = "merge"
  /\ UNCHANGED <<csv_v1, csv_v2, keys, merged, identicas_mask, identicas, diferentes,
                 solo_v2, solo_v1, files, stdout, error, exit_code>>

cols_to_compare == NotIn(df_v1.columns, keys)

left_cols == SuffixAll(cols_to_compare, "_v1")

right_cols == SuffixAll(cols_to_compare, "_v2")

\* merged[left_cols].eq(merged[right_cols].values), one row of it
eq_matrix(m, i) ==
  [j \in 1..Len(cols_to_compare) |-> CellEq(m.rows[i][left_cols[j]], m.rows[i][right_cols[j]])]

\* merged = df_v1.merge(df_v2, ...); identicas_mask = eq_matrix.all(axis=1)
Merge ==
  /\ pc = "merge"
  /\ merged' = MergeInner(df_v1, df_v2, keys)
  /\ identicas_mask' = [i \in 1..Len(merged'.rows) |->
                          \A j \in 1..Len(cols_to_compare) : eq_matrix(merged', i)[j]]
  /\ pc' = "identicas"
  /\ UNCHANGED <<csv_v1, csv_v2, keys, df_v1, df_v2, identicas, diferentes,
                 solo_v2, solo_v1, files, stdout, error, exit_code>>

\* identicas = merged.loc[identicas_mask, keys + left_cols]
\* identicas.columns = df_v1.columns
BuildIdenticas ==
  /\ pc = "identicas"
  /\ identicas' = SetColumns(Loc(merged, identicas_mask, keys \o left_cols), df_v1.columns)
  /\ pc' = "diferentes"
  /\ UNCHANGED <<csv_v1, csv_v2, keys, df_v1, df_v2, merged, identicas_mask, diferentes,
                 solo_v2, solo_v1, files, stdout, error, exit_code>>

\* the entry of diff_cols_list for one row of diffs
diff_cols_entry(row) ==
  LET Differs(c) == ~CellEq(row[c \o "_v1"], row[c \o "_v2"])
  IN  StrCell(<<JoinComma(SelectSeq(cols_to_compare, Differs))>>)

\* diferentes = merged.loc[~identicas_mask, keys + left_cols + right_cols]
\* if not diferentes.empty: diferentes.insert(len(keys), "diff_cols", ...)
BuildDiferentes ==
  /\ pc = "diferentes"
  /\ LET sel == Loc(merged, [i \in 1..Len(merged.rows) |-> ~identicas_mask[i]],
                    keys \o left_cols \o right_cols)
     IN  diferentes' =
           IF Len(sel.rows) # 0
           THEN Insert(sel, Len(keys), "diff_cols",
                       [i \in 1..Len(sel.rows) |-> diff_cols_entry(sel.rows[i])])
           ELSE sel
  /\ pc' = "solo"
  /\ UNCHANGED <<csv_v1, csv_v2, keys, df_v1, df_v2, merged, identicas_mask, identicas,
                 solo_v2, solo_v1, files, stdout, error, exit_code>>

\* solo_v2 = df_v2.merge(df_v1[keys], how="left", indicator=True), left_only
\* rows; solo_v1 likewise with the frames swapped
BuildSolo ==
  /\ pc = "solo"
  /\ solo_v2' = LeftOnly(MergeLeftIndicator(df_v2, Project(df_v1, keys), keys))
  /\ solo_v1' = LeftOnly(MergeLeftIndicator(df_v1, Project(df_v2, keys), keys))
  /\ pc' = "salidas"
  /\ UNCHANGED <<csv_v1, csv_v2, keys, df_v1, df_v2, merged, identicas_mask, identicas,
                 diferentes, files, stdout, error, exit_code>>

\* the four to_csv calls and the summary
Salidas ==
  /\ pc = "salidas"
  /\ files' = [n \in FileNames |->
                 IF n = "coinciden_completamente.csv" THEN to_csv(identicas)
                 ELSE IF n = "difieren.csv" THEN to_csv(diferentes)
                 ELSE IF n = "solo_en_v2.csv" THEN to_csv(solo_v2)
                 ELSE to_csv(solo_v1)]
  /\ stdout' = [identicas |-> Len(identicas.rows), diferentes |-> Len(diferentes.rows),
                solo_v2 |-> Len(solo_v2.rows), solo_v1 |-> Len(solo_v1.rows)]
  /\ pc' = "exit"
  /\ UNCHANGED <<csv_v1, csv_v2, keys, df_v1, df_v2, merged, identicas_mask, identicas,
                 diferentes, solo_v2, solo_v1, error, exit_code>>

Next ==
  \/ LoadCsvs
  \/ CheckKeys
  \/ validate_columns
  \/ NormalizeKeys
  \/ Merge
  \/ BuildIdenticas
  \/ BuildDiferentes
  \/ BuildSolo
  \/ Salidas

Spec == Init /\ [][Next]_vars

(* ---------------------------------------------------------------------- *)
(* Vocabulary of the properties                                            *)
(* ---------------------------------------------------------------------- *)
\* the run went through every step and wrote its outputs
Done == pc = "exit" /\ exit_code = 0

\* the datasets the comparison works on: the loaded files with their key
\* columns as strings
Old == AsTypeStrKeys(read_csv(csv_v1), keys)

New == AsTypeStrKeys(read_csv(csv_v2), keys)

KeyTuple(row) == [n \in 1..Len(keys) |-> row[keys[n]]]

KeyTuples(df) == { KeyTuple(df.rows[i]) : i \in 1..Len(df.rows) }

Occurrences(df, kt) == Cardinality({ i \in 1..Len(df.rows) : KeyTuple(df.rows[i]) = kt })

NoDuplicateKeys(df) == \A kt \in KeyTuples(df) : Occurrences(df, kt) = 1

Comparable(df) == NotIn(df.columns, keys)

\* two cells hold the same value: both missing, or equal
SameValue(a, b) == (a.t = "nan" /\ b.t = "nan") \/ CellEq(a, b)

\* both files load as datasets
Loadable == Len(csv_v1.columns) > 0 /\ Len(csv_v2.columns) > 0

\* a requested key is absent from a file, or the column sets differ
SchemaBad ==
  \/ \E n \in 1..Len(keys) : ~InSeq(keys[n], csv_v1.columns) \/ ~InSeq(keys[n], csv_v2.columns)
  \/ Range(csv_v1.columns) # Range(csv_v2.columns)

\* the subsequences of a sequence
SubSeqsOf(sq) ==
  { LET Keep(x) == x \in S IN SelectSeq(sq, Keep) : S \in SUBSET Range(sq) }

\* rows of merged that carry the key tuple kt
MergedWith(kt) == { n \in 1..Len(merged.rows) : KeyTuple(merged.rows[n]) = kt }

(* ---------------------------------------------------------------------- *)
(* C1  Partition completeness                                              *)
(* ---------------------------------------------------------------------- *)
\* the number of the three outputs a record with key tuple kt lands in,
\* solo being the one-sided output of its file
Landings(kt, solo) ==
  (IF \E n \in MergedWith(kt) : identicas_mask[n] THEN 1 ELSE 0)
  + (IF \E n \in MergedWith(kt) : ~identicas_mask[n] THEN 1 ELSE 0)
  + (IF kt \in KeyTuples(solo) THEN 1 ELSE 0)

\* C1: when no key tuple is repeated within either dataset, every old
\* record lands in exactly one of Identical, Differing, OnlyInOld, every
\* new record in exactly one of Identical, Differing, OnlyInNew, and the
\* reported counts add up to the sizes of the two datasets.
C1_PartitionComplete ==
  Done =>
    LET old == Old
        new == New
    IN  (NoDuplicateKeys(old) /\ NoDuplicateKeys(new)) =>
          /\ \A kt \in KeyTuples(old) : Landings(kt, solo_v1) = 1
          /\ \A kt \in KeyTuples(new) : Landings(kt, solo_v2) = 1
          /\ Len(csv_v1.rows) = stdout.identicas + stdout.diferentes + stdout.solo_v1
          /\ Len(csv_v2.rows) = stdout.identicas + stdout.diferentes + stdout.solo_v2

C1_Witness ==
  /\ Done /\ NoDuplicateKeys(Old) /\ NoDuplicateKeys(New)
  /\ Len(csv_v1.rows) = 2 /\ Len(csv_v2.rows) = 1
  /\ stdout.diferentes = 1 /\ stdout.solo_v1 = 1 /\ stdout.solo_v2 = 0

(* ---------------------------------------------------------------------- *)
(* C2  Idempotence                                                         *)
(* ---------------------------------------------------------------------- *)
\* C2: comparing a file against itself yields no Differing, OnlyInOld or
\* OnlyInNew row and as many Identical rows as the file has rows.
C2_Idempotence ==
  (Done /\ csv_v1 = csv_v2) =>
     stdout = [identicas |-> Len(csv_v1.rows), diferentes |-> 0,
               solo_v2 |-> 0, solo_v1 |-> 0]

(* ---------------------------------------------------------------------- *)
(* C3  Layout and values of Identical                                      *)
(* ---------------------------------------------------------------------- *)
\* C3: Identical has the old dataset's columns in the old dataset's order,
\* and every row of it is a record of the old dataset, column by column.
C3_IdenticalIsOldRecord ==
  Done =>
     /\ identicas.columns = Old.columns
     /\ \A n \in 1..Len(identicas.rows) :
          \E i \in 1..Len(Old.rows) : identicas.rows[n] = Old.rows[i]

(* ---------------------------------------------------------------------- *)
(* C4  Schema rejection                                                    *)
(* ---------------------------------------------------------------------- *)
\* C4: a run on two datasets with a missing key column or different column
\* sets ends in a schema error without having normalised, joined, compared
\* or written anything; a run on any other two datasets ends with all four
\* output files written.
C4_SchemaAllOrNothing ==
  /\ (Loadable /\ SchemaBad) =>
       /\ pc \in {"read_csv", "check_keys", "validate_columns", "exit"}
       /\ pc = "exit" => exit_code = 1 /\ error.kind \in {"clave", "columnas"}
       /\ merged = NoFrame /\ identicas = NoFrame /\ diferentes = NoFrame
       /\ solo_v2 = NoFrame /\ solo_v1 = NoFrame
       /\ files = << >> /\ stdout = NoCounts
       /\ df_v1 \in {NoFrame, read_csv(csv_v1)}
       /\ df_v2 \in {NoFrame, read_csv(csv_v2)}
  /\ (Loadable /\ ~SchemaBad /\ pc = "exit") =>
       /\ exit_code = 0 /\ error = NoError
       /\ DOMAIN files = FileNames

C4_Witness ==
  /\ pc = "exit" /\ exit_code = 1 /\ error.kind = "columnas"
  /\ Len(csv_v2.columns) > Len(csv_v1.columns)
  /\ Len(csv_v1.rows) = 1 /\ Len(csv_v2.rows) = 1
  /\ files = << >>

(* ---------------------------------------------------------------------- *)
(* C5  Exact-match strictness                                              *)
(* ---------------------------------------------------------------------- *)
\* the row of Differing for old record i and new record j lists column c
ListedAsDiffering(i, j, c) ==
  \E n \in 1..Len(diferentes.rows) :
     /\ InSeq("diff_cols", diferentes.columns)
     /\ KeyTuple(diferentes.rows[n]) = KeyTuple(Old.rows[i])
     /\ \A d \in Range(Comparable(Old)) :
          /\ diferentes.rows[n][d \o "_v1"] = Old.rows[i][d]
          /\ diferentes.rows[n][d \o "_v2"] = New.rows[j][d]
     /\ \E sq \in SubSeqsOf(Comparable(Old)) :
          InSeq(c, sq) /\ diferentes.rows[n]["diff_cols"] = StrCell(<<JoinComma(sq)>>)

\* C5: an aligned pair whose texts in a comparable column are different
\* ("3" against "3.0") goes to Differing with that column listed.
C5_ExactMatch ==
  Done =>
     \A i \in 1..Len(Old.rows), j \in 1..Len(New.rows) :
        KeyTuple(Old.rows[i]) = KeyTuple(New.rows[j]) =>
           \A c \in Range(Comparable(Old)) :
              csv_v1.rows[i][c] # csv_v2.rows[j][c] => ListedAsDiffering(i, j, c)

(* ---------------------------------------------------------------------- *)
(* C6  Differing-column attribution                                        *)
(* ---------------------------------------------------------------------- *)
\* C6: diff_cols of every Differing row is the comma-joined list of the
\* comparable columns whose old and new values are not the same, in the
\* old dataset's column order.
C6_DiffColsExact ==
  Done =>
     \A n \in 1..Len(diferentes.rows) :
        LET row == diferentes.rows[n]
            Disagree(c) == ~SameValue(row[c \o "_v1"], row[c \o "_v2"])
        IN  /\ InSeq("diff_cols", diferentes.columns)
            /\ row["diff_cols"] = StrCell(<<JoinComma(SelectSeq(Comparable(Old), Disagree))>>)

(* ---------------------------------------------------------------------- *)
(* C7  Layout of Differing                                                 *)
(* ---------------------------------------------------------------------- *)
\* C7: Differing always has the columns keys, diff_cols, the old-side
\* comparable columns, the new-side comparable columns, in that order.
C7_DifferingLayout ==
  Done =>
     /\ diferentes.columns =
          keys \o <<"diff_cols">> \o SuffixAll(Comparable(Old), "_v1")
               \o SuffixAll(Comparable(Old), "_v2")
     /\ files["difieren.csv"].columns = diferentes.columns

(* ---------------------------------------------------------------------- *)
(* C8  Content of the schema errors                                        *)
(* ---------------------------------------------------------------------- *)
\* the side a key column is missing from
LackingSide(k) ==
  IF ~InSeq(k, csv_v1.columns) /\ ~InSeq(k, csv_v2.columns) THEN "ambos"
  ELSE IF ~InSeq(k, csv_v1.columns) THEN "v1" ELSE "v2"

\* C8: a key error names a missing key and the side that lacks it; a
\* column-set error lists exactly the columns absent from each side.
C8_ErrorDetail ==
  /\ (pc = "exit" /\ error.kind = "clave") =>
        /\ InSeq(error.key, keys)
        /\ ~InSeq(error.key, csv_v1.columns) \/ ~InSeq(error.key, csv_v2.columns)
        /\ error.sides = LackingSide(error.key)
  /\ (pc = "exit" /\ error.kind = "columnas") =>
        /\ Range(error.missing_in_v2) = Range(csv_v1.columns) \ Range(csv_v2.columns)
        /\ Range(error.missing_in_v1) = Range(csv_v2.columns) \ Range(csv_v1.columns)

(* ---------------------------------------------------------------------- *)
(* C9  OnlyInNew and OnlyInOld                                             *)
(* ---------------------------------------------------------------------- *)
\* the records of the dataset loaded from csv whose normalised key tuple
\* (taken from df, the same dataset with its keys as strings) occurs in no
\* record of other, in input order and as loaded
UnmatchedRecords(csv, df, other) ==
  LET loaded == read_csv(csv)
      others == KeyTuples(other)
      RECURSIVE From(_)
      From(i) == IF i > Len(loaded.rows) THEN <<>>
                 ELSE (IF KeyTuple(df.rows[i]) \notin others
                       THEN <<loaded.rows[i]>> ELSE <<>>) \o From(i + 1)
  IN  [columns |-> loaded.columns, rows |-> From(1)]

\* C9: solo_en_v2.csv holds exactly the records of the new dataset whose
\* string-normalised key tuple occurs in no old record, once each, in
\* input order, with the new dataset's columns and the cell values the
\* dataset has; solo_en_v1.csv holds the same for the old dataset.
C9_SoloUnchanged ==
  Done =>
    LET old == Old
        new == New
    IN
     /\ files["solo_en_v2.csv"] = to_csv(UnmatchedRecords(csv_v2, new, old))
     /\ files["solo_en_v1.csv"] = to_csv(UnmatchedRecords(csv_v1, old, new))

\* the rows of df whose key tuple occurs in no row of other, in df's order
Unmatched(df, other) ==
  LET others == KeyTuples(other)
      Alone(r) == KeyTuple(r) \notin others
  IN  [columns |-> df.columns, rows |-> SelectSeq(df.rows, Alone)]

\* what does hold of the one-sided outputs: they are the unmatched rows of
\* the frames after the cast of the key columns, once each, in input order,
\* with the file's own column order, whatever keys the other side repeats
SoloOfCastFrames ==
  Done =>
    LET old == Old
        new == New
        only_new == Unmatched(new, old)
        only_old == Unmatched(old, new)
    IN
     /\ solo_v2 = only_new
     /\ solo_v1 = only_old
     /\ files["solo_en_v2.csv"] = to_csv(only_new)
     /\ files["solo_en_v1.csv"] = to_csv(only_old)
     /\ files["solo_en_v2.csv"].columns = csv_v2.columns
     /\ files["solo_en_v1.csv"].columns = csv_v1.columns

\* no record has a missing key cell
KeysPresentIn(csv) ==
  \A i \in 1..Len(csv.rows) : \A n \in 1..Len(keys) : ~IsNA(csv.rows[i][keys[n]])

\* the one-sided files differ from the datasets' records only where a key
\* cell is missing
SoloUnchangedWithKeys ==
  (Done /\ KeysPresentIn(csv_v1) /\ KeysPresentIn(csv_v2)) =>
     /\ files["solo_en_v2.csv"] = to_csv(UnmatchedRecords(csv_v2, New, Old))
     /\ files["solo_en_v1.csv"] = to_csv(UnmatchedRecords(csv_v1, Old, New))

(* ---------------------------------------------------------------------- *)
(* C10  Duplicate keys: cross product                                      *)
(* ---------------------------------------------------------------------- *)
AlignedPairs(old, new) ==
  { p \in (1..Len(old.rows)) \X (1..Len(new.rows)) :
      KeyTuple(old.rows[p[1]]) = KeyTuple(new.rows[p[2]]) }

PairEqual(old, new, p) ==
  \A c \in Range(Comparable(old)) : CellEq(old.rows[p[1]][c], new.rows[p[2]][c])

\* C10: a key tuple occurring m times in old and n times in new yields
\* m*n aligned pairs, each classified on its own values, and nothing is
\* deduplicated.
C10_CrossProduct ==
  Done =>
    LET old == Old
        new == New
        pairs == AlignedPairs(old, new)
    IN
     /\ \A kt \in KeyTuples(old) \cap KeyTuples(new) :
          Cardinality(MergedWith(kt)) = Occurrences(old, kt) * Occurrences(new, kt)
     /\ Len(merged.rows) = Cardinality(pairs)
     /\ stdout.identicas = Cardinality({ p \in pairs : PairEqual(old, new, p) })
     /\ stdout.diferentes = Cardinality({ p \in pairs : ~PairEqual(old, new, p) })

C10_Witness ==
  /\ Done
  /\ \E kt \in KeyTuples(Old) : Occurrences(Old, kt) = 2 /\ Occurrences(New, kt) = 2
  /\ stdout.identicas = 2 /\ stdout.diferentes = 2

====
